---- MODULE Spec2Model ----
(***************************************************************************)
(* A model of shady_cli.mirror.MirrorCrawler: URL canonicalisation, scope  *)
(* policy, the rate-limited retrying fetcher and the breadth-first crawl   *)
(* loop with its per-batch concurrent _process_one tasks.                  *)
(*                                                                         *)
(* Text (paths, network locations, content types) is a sequence of         *)
(* one-character strings, so that endswith / substring / rstrip are        *)
(* computed as the code computes them.  Time is counted in ticks of one    *)
(* second.                                                                 *)
(***************************************************************************)
EXTENDS Integers, Sequences, FiniteSets, TLC

(***************************************************************************)
(* Text helpers (Python str / pathlib primitives used by mirror.py).       *)
(***************************************************************************)
Min(a, b) == IF a <= b THEN a ELSE b

Max(a, b) == IF a >= b THEN a ELSE b

Range(s) == {s[i] : i \in 1..Len(s)}

\* str.endswith
EndsWith(s, suf) ==
    /\ Len(suf) <= Len(s)
    /\ SubSeq(s, Len(s) - Len(suf) + 1, Len(s)) = suf

\* the `in` operator on str: sub occurs in s
Contains(s, sub) ==
    \E i \in 1..(Len(s) - Len(sub) + 1) : SubSeq(s, i, i + Len(sub) - 1) = sub

UpperAlpha ==
    <<"A", "B", "C", "D", "E", "F", "G", "H", "I", "J", "K", "L", "M",
      "N", "O", "P", "Q", "R", "S", "T", "U", "V", "W", "X", "Y", "Z">>

LowerAlpha ==
    <<"a", "b", "c", "d", "e", "f", "g", "h", "i", "j", "k", "l", "m",
      "n", "o", "p", "q", "r", "s", "t", "u", "v", "w", "x", "y", "z">>

\* str.lower on one character
LowerChar(c) ==
    IF \E i \in 1..Len(UpperAlpha) : UpperAlpha[i] = c
    THEN LowerAlpha[CHOOSE i \in 1..Len(UpperAlpha) : UpperAlpha[i] = c]
    ELSE c

\* str.lower
Lower(s) == [i \in 1..Len(s) |-> LowerChar(s[i])]

\* str.rstrip("/")
RECURSIVE RStripSlash(_)
RStripSlash(s) ==
    IF s # <<>> /\ s[Len(s)] = "/" THEN RStripSlash(SubSeq(s, 1, Len(s) - 1)) ELSE s

\* str.lstrip("/")
RECURSIVE LStripSlash(_)
LStripSlash(s) ==
    IF s # <<>> /\ s[1] = "/" THEN LStripSlash(Tail(s)) ELSE s

\* the index of the last occurrence of c in s, 0 when there is none (str.rfind + 1)
LastIndexOf(s, c) ==
    IF \E i \in 1..Len(s) : s[i] = c
    THEN CHOOSE i \in 1..Len(s) : s[i] = c /\ \A j \in (i + 1)..Len(s) : s[j] # c
    ELSE 0

\* the index of the first occurrence of c in s, 0 when there is none (str.find + 1)
FirstIndexOf(s, c) ==
    IF \E i \in 1..Len(s) : s[i] = c
    THEN CHOOSE i \in 1..Len(s) : s[i] = c /\ \A j \in 1..(i - 1) : s[j] # c
    ELSE 0

\* pathlib: Path(p).name, the last component of p (trailing slashes dropped)
PathName(p) ==
    LET q == RStripSlash(p)
    IN  SubSeq(q, LastIndexOf(q, "/") + 1, Len(q))

\* pathlib: Path(p).suffix, from the last dot of the name when that dot is
\* neither its first nor its last character
PathSuffix(p) ==
    LET name == PathName(p)
        i    == LastIndexOf(name, ".")
    IN  IF 1 < i /\ i < Len(name) THEN SubSeq(name, i, Len(name)) ELSE <<>>

(***************************************************************************)
(* URLs: the components urlparse gives (params are not used by the code).  *)
(***************************************************************************)
\* scheme, netloc, path and fragment are texts; query is the list parse_qsl
\* gives, of [k, v] pairs of texts.  A URL string of the program is held as
\* these components.
Url(s, n, p, q, f) == [scheme |-> s, netloc |-> n, path |-> p, query |-> q, fragment |-> f]

HTTP == <<"h", "t", "t", "p">>

HTTPS == <<"h", "t", "t", "p", "s">>

MAILTO == <<"m", "a", "i", "l", "t", "o">>

TRACKING_PARAMS ==
    { <<"u", "t", "m", "_", "s", "o", "u", "r", "c", "e">>,
      <<"u", "t", "m", "_", "m", "e", "d", "i", "u", "m">>,
      <<"u", "t", "m", "_", "c", "a", "m", "p", "a", "i", "g", "n">>,
      <<"u", "t", "m", "_", "t", "e", "r", "m">>,
      <<"u", "t", "m", "_", "c", "o", "n", "t", "e", "n", "t">>,
      <<"g", "c", "l", "i", "d">>,
      <<"f", "b", "c", "l", "i", "d">> }

\* the list comprehension of _normalize_url: the (k, v) pairs whose lowered key
\* is no tracking parameter, in order
RECURSIVE StripTracking(_)
StripTracking(q) ==
    IF q = <<>> THEN <<>>
    ELSE IF Lower(Head(q).k) \in TRACKING_PARAMS
         THEN StripTracking(Tail(q))
         ELSE <<Head(q)>> \o StripTracking(Tail(q))

\* urlparse("https://" + text) for a text urlparse found no scheme in: the
\* network location runs up to the first slash of what follows "https://"
WithHttps(u) ==
    IF u.netloc # <<>>
    THEN [u EXCEPT !.scheme = HTTPS, !.netloc = <<>>,
                   !.path = <<"/", "/">> \o u.netloc \o u.path]
    ELSE LET i == FirstIndexOf(u.path, "/")
         IN  IF i = 0
             THEN [u EXCEPT !.scheme = HTTPS, !.netloc = u.path, !.path = <<>>]
             ELSE [u EXCEPT !.scheme = HTTPS,
                            !.netloc = SubSeq(u.path, 1, i - 1),
                            !.path = SubSeq(u.path, i, Len(u.path))]

\* _normalize_url from line 91 on: what becomes of the parsed URL
Canonical(parsed) ==
    LET path0  == IF parsed.path = <<>> THEN <<"/">> ELSE parsed.path
        path   == IF path0 # <<"/">> /\ EndsWith(path0, <<"/">>)
                  THEN RStripSlash(path0) ELSE path0
    IN  [parsed EXCEPT !.fragment = <<>>, !.query = StripTracking(parsed.query),
                       !.path = path]

\* _normalize_url on the components of its argument
NormalizeUrl(url) == Canonical(IF url.scheme = <<>> THEN WithHttps(url) ELSE url)

(***************************************************************************)
(* The URL string (urlunparse) and the order sorted() puts URL strings in. *)
(***************************************************************************)
\* the characters of the model in code-point order
CodePoints ==
    <<"#", "&", ".", "/", "0", "1", "2", "3", "4", "5", "6", "7", "8", "9",
      ":", "=", "?", "@">> \o UpperAlpha \o <<"_">> \o LowerAlpha

Ord(c) == CHOOSE i \in 1..Len(CodePoints) : CodePoints[i] = c

\* str < str: the first differing character decides, a proper prefix is smaller
TextLess(a, b) ==
    \E i \in 1..(Min(Len(a), Len(b)) + 1) :
        /\ SubSeq(a, 1, i - 1) = SubSeq(b, 1, i - 1)
        /\ \/ i > Len(a) /\ i <= Len(b)
           \/ i <= Len(a) /\ i <= Len(b) /\ Ord(a[i]) < Ord(b[i])

\* urlencode of the (k, v) pairs: k=v joined by "&"
RECURSIVE UrlEncode(_)
UrlEncode(q) ==
    IF q = <<>> THEN <<>>
    ELSE Head(q).k \o <<"=">> \o Head(q).v
         \o (IF Tail(q) = <<>> THEN <<>> ELSE <<"&">> \o UrlEncode(Tail(q)))

\* the schemes urllib lists in uses_netloc, among the model's
UsesNetloc == {HTTP, HTTPS}

\* urlunparse
UrlText(u) ==
    LET loc  == IF u.netloc # <<>>
                   \/ (u.scheme \in UsesNetloc
                       /\ SubSeq(u.path, 1, Min(2, Len(u.path))) # <<"/", "/">>)
                THEN <<"/", "/">> \o u.netloc
                     \o (IF u.path # <<>> /\ u.path[1] # "/" THEN <<"/">> ELSE <<>>)
                     \o u.path
                ELSE u.path
    IN  (IF u.scheme # <<>> THEN u.scheme \o <<":">> ELSE <<>>)
        \o loc
        \o (IF u.query # <<>> THEN <<"?">> \o UrlEncode(u.query) ELSE <<>>)
        \o (IF u.fragment # <<>> THEN <<"#">> \o u.fragment ELSE <<>>)

\* the characters urlsplit accepts in a scheme, among the model's
SchemeChars == Range(UpperAlpha) \cup Range(LowerAlpha) \cup {"0", "1", "2", "."}

\* the index of the first character of s at or after `from` that is in chars,
\* Len(s) + 1 when there is none
IndexFrom(s, chars, from) ==
    IF \E i \in from..Len(s) : s[i] \in chars
    THEN CHOOSE i \in from..Len(s) :
            s[i] \in chars /\ \A j \in from..(i - 1) : s[j] \notin chars
    ELSE Len(s) + 1

\* str.split(sep): the pieces of s between the occurrences of sep
RECURSIVE Split(_, _)
Split(s, sep) ==
    LET i == FirstIndexOf(s, sep)
    IN  IF i = 0 THEN <<s>>
        ELSE <<SubSeq(s, 1, i - 1)>> \o Split(SubSeq(s, i + 1, Len(s)), sep)

\* one name=value piece of a query: split at the first "=", a blank value kept
NameValue(piece) ==
    LET i == FirstIndexOf(piece, "=")
    IN  IF i = 0 THEN [k |-> piece, v |-> <<>>]
        ELSE [k |-> SubSeq(piece, 1, i - 1), v |-> SubSeq(piece, i + 1, Len(piece))]

\* parse_qsl(query, keep_blank_values=True): empty pieces are skipped
RECURSIVE NameValues(_)
NameValues(pieces) ==
    IF pieces = <<>> THEN <<>>
    ELSE (IF Head(pieces) = <<>> THEN <<>> ELSE <<NameValue(Head(pieces))>>)
         \o NameValues(Tail(pieces))

ParseQsl(query) == IF query = <<>> THEN <<>> ELSE NameValues(Split(query, "&"))

\* urlparse(text), the query given as parse_qsl reads it
UrlParse(text) ==
    LET colon    == FirstIndexOf(text, ":")
        has_sch  == /\ colon > 1
                    /\ text[1] \in Range(UpperAlpha) \cup Range(LowerAlpha)
                    /\ \A i \in 1..(colon - 1) : text[i] \in SchemeChars
        scheme   == IF has_sch THEN Lower(SubSeq(text, 1, colon - 1)) ELSE <<>>
        rest0    == IF has_sch THEN SubSeq(text, colon + 1, Len(text)) ELSE text
        has_net  == Len(rest0) >= 2 /\ SubSeq(rest0, 1, 2) = <<"/", "/">>
        delim    == IndexFrom(rest0, {"/", "?", "#"}, 3)
        netloc   == IF has_net THEN SubSeq(rest0, 3, delim - 1) ELSE <<>>
        rest1    == IF has_net THEN SubSeq(rest0, delim, Len(rest0)) ELSE rest0
        hash     == FirstIndexOf(rest1, "#")
        fragment == IF hash = 0 THEN <<>> ELSE SubSeq(rest1, hash + 1, Len(rest1))
        rest2    == IF hash = 0 THEN rest1 ELSE SubSeq(rest1, 1, hash - 1)
        mark     == FirstIndexOf(rest2, "?")
        query    == IF mark = 0 THEN <<>> ELSE SubSeq(rest2, mark + 1, Len(rest2))
        path     == IF mark = 0 THEN rest2 ELSE SubSeq(rest2, 1, mark - 1)
    IN  Url(scheme, netloc, path, ParseQsl(query), fragment)

\* _normalize_url on the URL string: parsed, parsed again behind "https://"
\* when no scheme was found, canonicalised and put together again
NormalizeUrlText(text) ==
    LET parsed == IF UrlParse(text).scheme = <<>>
                  THEN UrlParse(HTTPS \o <<":", "/", "/">> \o text)
                  ELSE UrlParse(text)
    IN  UrlText(Canonical(parsed))

\* sorted(set(urls)): the URLs of S in the order of their strings
RECURSIVE SortedUrls(_)
SortedUrls(S) ==
    IF S = {} THEN <<>>
    ELSE LET m == CHOOSE x \in S : \A y \in S \ {x} : TextLess(UrlText(x), UrlText(y))
         IN  <<m>> \o SortedUrls(S \ {m})

(***************************************************************************)
(* Scope policy and content classification.                                *)
(***************************************************************************)
ExcludedSchemes ==
    { MAILTO, <<"t", "e", "l">>,
      <<"j", "a", "v", "a", "s", "c", "r", "i", "p", "t">>, <<"d", "a", "t", "a">> }

\* _in_scope comparing only the network location under same-origin
InScopeNetlocOnly(sc, base, url) ==
    IF url.scheme \in ExcludedSchemes THEN FALSE
    ELSE IF sc = "same-origin" \/ sc = "same-host"
         THEN url.netloc = base.netloc
    ELSE TRUE

\* _in_scope(url) for a crawler whose scope is sc and whose base URL is base
InScope(sc, base, url) ==
    IF url.scheme \in ExcludedSchemes THEN FALSE
    ELSE IF sc = "same-origin"
         THEN <<url.scheme, url.netloc>> = <<base.scheme, base.netloc>>
    ELSE IF sc = "same-host"
         THEN url.netloc = base.netloc
    ELSE TRUE

PageSuffixes ==
    { <<".", "h", "t", "m", "l">>, <<".", "h", "t", "m">>, <<".", "p", "h", "p">>,
      <<".", "a", "s", "p">>, <<".", "a", "s", "p", "x">>, <<".", "j", "s", "p">> }

LooksLikePage(url) ==
    LET path == Lower(url.path)
    IN  IF EndsWith(path, <<"/">>) \/ PathSuffix(path) = <<>> THEN TRUE
        ELSE PathSuffix(path) \in PageSuffixes

\* str.endswith(tuple)
EndsWithAny(s, sufs) == \E suf \in sufs : EndsWith(s, suf)

\* any(x in s for x in words)
ContainsAny(s, words) == \E w \in words : Contains(s, w)

JsExts == { <<".", "j", "s">>, <<".", "m", "j", "s">>, <<".", "c", "j", "s">> }

FontExts ==
    { <<".", "w", "o", "f", "f">>, <<".", "w", "o", "f", "f", "2">>,
      <<".", "t", "t", "f">>, <<".", "o", "t", "f">> }

ImgExts ==
    { <<".", "p", "n", "g">>, <<".", "j", "p", "g">>, <<".", "j", "p", "e", "g">>,
      <<".", "g", "i", "f">>, <<".", "w", "e", "b", "p">>, <<".", "s", "v", "g">>,
      <<".", "i", "c", "o">> }

\* _classify_asset(content_type, path); a content type of None is the empty text
ClassifyAsset(content_type, path) ==
    LET ctype  == Lower(content_type)
        path_l == Lower(path)
    IN  IF Contains(ctype, <<"j", "a", "v", "a", "s", "c", "r", "i", "p", "t">>)
           \/ EndsWithAny(path_l, JsExts)
        THEN "js"
        ELSE IF Contains(ctype, <<"c", "s", "s">>) \/ EndsWith(path_l, <<".", "c", "s", "s">>)
        THEN "css"
        ELSE IF ContainsAny(ctype, {<<"f", "o", "n", "t">>, <<"w", "o", "f", "f">>, <<"t", "t", "f">>})
                \/ EndsWithAny(path_l, FontExts)
        THEN "font"
        ELSE IF ContainsAny(ctype, {<<"i", "m", "a", "g", "e">>, <<"s", "v", "g">>})
                \/ EndsWithAny(path_l, ImgExts)
        THEN "img"
        ELSE "misc"

DefaultExt(asset_kind) ==
    CASE asset_kind = "js" -> <<".", "j", "s">>
      [] asset_kind = "css" -> <<".", "c", "s", "s">>
      [] OTHER -> <<".", "b", "i", "n">>

\* _url_to_local_path(url, kind, content_type), relative to host_root: the
\* directory (pages, or assets/<asset kind>), the path below it, and the query
\* whose 8-character SHA-1 digest the code puts before the extension (empty: none)
UrlToLocalPath(url, kind, content_type) ==
    LET raw_path == IF url.path = <<>> THEN <<"/">> ELSE url.path
    IN  IF kind = "page"
        THEN LET rel0 == LStripSlash(raw_path)
                 rel1 == IF rel0 = <<>> THEN <<"i", "n", "d", "e", "x">> ELSE rel0
                 rel  == IF EndsWith(raw_path, <<"/">>) \/ ~ Contains(PathName(rel1), <<".">>)
                         THEN RStripSlash(rel1) \o <<"/", "i", "n", "d", "e", "x", ".", "h", "t", "m", "l">>
                         ELSE rel1
             IN  [dir |-> "pages", rel |-> rel, digest |-> <<>>]
        ELSE LET asset_kind == ClassifyAsset(content_type, raw_path)
                 rel0 == IF LStripSlash(raw_path) = <<>> THEN <<"a", "s", "s", "e", "t">>
                         ELSE LStripSlash(raw_path)
                 rel1 == IF EndsWith(rel0, <<"/">>) THEN rel0 \o <<"i", "n", "d", "e", "x">> ELSE rel0
                 rel  == IF ~ Contains(PathName(rel1), <<".">>)
                         THEN rel1 \o DefaultExt(asset_kind) ELSE rel1
             IN  [dir |-> asset_kind, rel |-> rel, digest |-> UrlEncode(url.query)]

(***************************************************************************)
(* Optional values (None | a value) and CrawlResult.                       *)
(***************************************************************************)
None == <<>>

Some(x) == <<x>>

\* Python truthiness of an optional string: neither None nor ""
Truthy(opt) == opt # None /\ opt[1] # ""

\* f"HTTP {code}" for the status codes of the model
HttpError(code) ==
    CASE code = 404 -> "HTTP 404"
      [] code = 429 -> "HTTP 429"
      [] code = 500 -> "HTTP 500"
      [] code = 502 -> "HTTP 502"
      [] code = 503 -> "HTTP 503"
      [] code = 504 -> "HTTP 504"
      [] OTHER -> "HTTP ???"

\* httpx.Response.is_success
IsSuccess(code) == 200 <= code /\ code <= 299

TransientStatuses == {429, 500, 502, 503, 504}

\* the CrawlResult dataclass (its sources map is not modelled)
CrawlResult(url, status_code, content_type, local_path, kind, discovered_links, error) ==
    [url |-> url, status_code |-> status_code, content_type |-> content_type,
     local_path |-> local_path, kind |-> kind,
     discovered_links |-> discovered_links, error |-> error]

(***************************************************************************)
(* The site crawled: what the server holds at each canonical URL.  The     *)
(* links are the absolute URLs urljoin gives for the references of the     *)
(* body, before canonicalisation.                                          *)
(***************************************************************************)
HostA == <<"a">>

HostB == <<"b">>

TextHtml == <<"t", "e", "x", "t", "/", "h", "t", "m", "l">>

TextJavascript == <<"t", "e", "x", "t", "/", "j", "a", "v", "a", "s", "c", "r", "i", "p", "t">>

Plain(s, n, p) == Url(s, n, p, <<>>, <<>>)

UrlRoot == Plain(HTTP, HostA, <<"/">>)

UrlP == Plain(HTTP, HostA, <<"/", "p">>)

UrlQ == Plain(HTTP, HostA, <<"/", "q">>)

UrlR == Plain(HTTP, HostA, <<"/", "r">>)

UrlJs == Plain(HTTP, HostA, <<"/", "j", ".", "j", "s">>)

UrlPdf == Plain(HTTP, HostA, <<"/", "d", ".", "p", "d", "f">>)

UrlSecure == Plain(HTTPS, HostA, <<"/", "s">>)

UrlOther == Plain(HTTP, HostB, <<"/", "x">>)

UrlMail == Plain(MAILTO, <<>>, <<"x">>)

Body(content_type, html_links, js_hints) ==
    [content_type |-> content_type, html_links |-> html_links, js_hints |-> js_hints]

\* the body served at url: its content type, the references an HTML parse of
\* it finds, and the import / source-map hints a JS scan of it finds
SiteBody(url) ==
    CASE url = UrlRoot ->
            Body(TextHtml,
                 { Plain(HTTP, HostA, <<"/", "p", "/">>),
                   Url(HTTP, HostA, <<"/", "q">>, <<>>, <<"f">>),
                   UrlJs, UrlPdf, UrlSecure, UrlOther, UrlMail }, {})
      [] url = UrlP ->
            Body(TextHtml,
                 { Url(HTTP, HostA, <<"/", "q">>,
                       <<[k |-> <<"U", "T", "M", "_", "s", "o", "u", "r", "c", "e">>, v |-> <<"1">>]>>, <<>>),
                   UrlR }, {})
      [] url = UrlQ ->
            Body(TextHtml, { Plain(HTTP, HostA, <<>>), Plain(HTTP, HostA, <<"/", "r", "/">>) }, {})
      [] url = UrlJs -> Body(TextJavascript, {}, { UrlP })
      [] OTHER -> Body(TextHtml, {}, {})

(***************************************************************************)
(* State.                                                                  *)
(***************************************************************************)
VARIABLES
    args,            \* the constructor's arguments that __init__ clamps or defaults
    base_url, max_pages, scope, include_assets, max_depth, concurrency, rate_interval,
    seen, local_map, asset_count, page_count,
    written,         \* the attribute values in the HTML of each page saved
    rate_lock,       \* _rate_lock: 0 when free, else the task holding it
    last_fetch_age,  \* time.time() - _last_fetch_ts, counted up to Horizon
    queue, batch,
    tasks,           \* the _process_one coroutines of the batch in flight
    crawl_log, err_log,
    summary,         \* the summaries written to summary.json, in order
    pc,              \* where crawl() is: "loop", "gather", "done"
    server,          \* what the server and the disk may do to a request
    dispatched,      \* history: the URLs handed to _process_one, in order
    finished,        \* history: the URLs whose _process_one returned, in order
    call             \* a method called on its own: its arguments and what it returned

settings == <<args, base_url, max_pages, scope, include_assets, max_depth, concurrency,
              rate_interval, server>>

config == <<settings, call>>

crawl_state == <<seen, local_map, written, asset_count, page_count, queue, batch,
                 crawl_log, err_log, summary, pc, dispatched>>

vars == <<config, crawl_state, rate_lock, last_fetch_age, tasks, finished>>

(***************************************************************************)
(* __init__                                                                *)
(***************************************************************************)
\* The rate argument is one request per rate_period seconds (rate_rps =
\* 1 / rate_period), so that 1.0 / max(0.1, rate_rps) is a whole number of
\* ticks: rate_period when rate_rps >= 0.1, that is rate_period <= 10, else 10.
MaxRateInterval == 10

RateInterval(rate_period) ==
    IF rate_period <= MaxRateInterval THEN rate_period ELSE MaxRateInterval

DefaultAssets == {"js", "css", "img", "font"}

\* the state __init__ leaves for these arguments, crawl() about to enter its loop
Construct(url, pages, sc, assets, depth, conc, rate_period, srv) ==
    /\ args = [concurrency |-> conc, rate_period |-> rate_period, include_assets |-> assets]
    /\ base_url = NormalizeUrl(url)
    /\ max_pages = pages
    /\ scope = sc
    /\ include_assets = (IF assets = {} THEN DefaultAssets ELSE assets)
    /\ max_depth = depth
    /\ concurrency = Max(1, conc)
    /\ rate_interval = RateInterval(rate_period)
    /\ seen = {}
    /\ local_map = <<>>
    /\ written = <<>>
    /\ asset_count = 0
    /\ page_count = 0
    /\ rate_lock = 0
    /\ last_fetch_age = Max(RateInterval(rate_period), rate_period)
    /\ queue = <<[url |-> NormalizeUrl(url), depth |-> 0, kind |-> "page"]>>
    /\ batch = <<>>
    /\ tasks = <<>>
    /\ crawl_log = <<>>
    /\ err_log = <<>>
    /\ summary = <<>>
    /\ pc = "loop"
    /\ server = srv
    /\ dispatched = <<>>
    /\ finished = <<>>

\* no method is called on its own: crawl() runs
NoCall == [fn |-> "none", how |-> "none", args |-> <<>>, outs |-> <<>>, again |-> <<>>]

\* the age beyond which the model stops counting: no wait depends on more
Horizon == Max(rate_interval, args.rate_period)

(***************************************************************************)
(* _process_one after the response has arrived (lines 317-362), and its    *)
(* except branch.                                                          *)
(***************************************************************************)
ExtractHtmlLinks(html_links) ==
    SortedUrls({ l \in { NormalizeUrl(r) : r \in html_links } : InScope(scope, base_url, l) })

ExtractJsHints(js_hints) ==
    SortedUrls({ l \in { NormalizeUrl(r) : r \in js_hints } : InScope(scope, base_url, l) })

\* the except branch returning a result without error
\* _relative_ref_for_page(page_url, target_local): the text of target_local
\* itself (a path that starts with the result directory) when the page has no
\* entry in local_map, else ".." joined with target_local relative to host_root
RelativeRefForPage(page_url, target_local) ==
    IF page_url \notin DOMAIN local_map
    THEN [form |-> "target_local", local |-> target_local]
    ELSE [form |-> "../relative", local |-> target_local]

\* the loop of _extract_html_data under rewrite_links (lines 212-223): for
\* each reference of the page, the value its attribute has in the saved HTML
RewriteLinks(page_url, references) ==
    [ref \in references |->
        LET old == NormalizeUrl(ref)
        IN  IF old \in DOMAIN local_map
            THEN RelativeRefForPage(page_url, local_map[old])
            ELSE [form |-> "unchanged", local |-> None]]

ExceptionResultNoError(url, kind, msg) ==
    CrawlResult(url, None, None, None, kind, <<>>, None)

ExceptionResult(url, kind, msg) ==
    CrawlResult(url, None, None, None, kind, <<>>, Some(msg))

TooLargeResult(url, kind, status, content_type) ==
    CrawlResult(url, Some(status), Some(content_type), None, kind, <<>>,
                Some("response too large"))

\* what _process_one does with a response within the size ceiling whose body
\* it manages to save: the result, and the changes to the crawler's state
ProcessResponse(url, kind, status) ==
    LET body         == SiteBody(url)
        content_type == Lower(body.content_type)
        is_html      == Contains(content_type, TextHtml) \/ LooksLikePage(url)
        eff_kind     == IF is_html THEN "page" ELSE kind
        local_path   == UrlToLocalPath(url, eff_kind, content_type)
        is_js        == Contains(content_type, <<"j", "a", "v", "a", "s", "c", "r", "i", "p", "t">>)
                        \/ PathSuffix(local_path.rel) = <<".", "j", "s">>
        discovered   == IF is_html THEN ExtractHtmlLinks(body.html_links)
                        ELSE IF is_js THEN ExtractJsHints(body.js_hints)
                        ELSE <<>>
    IN  [result |-> CrawlResult(url, Some(status), Some(content_type), Some(local_path),
                                eff_kind, discovered,
                                IF IsSuccess(status) THEN None ELSE Some(HttpError(status))),
         pages  |-> IF is_html THEN 1 ELSE 0,
         assets |-> IF is_html THEN 0 ELSE 1,
         local_path |-> local_path,
         rendered |-> IF is_html THEN Some(RewriteLinks(url, body.html_links)) ELSE None]

(***************************************************************************)
(* crawl(): the loop head and the drain of a batch (lines 265-277).        *)
(***************************************************************************)
LoopCondition == queue # <<>> /\ page_count < max_pages

\* Drain without the `candidate in self.seen` test
RECURSIVE DrainIgnoringSeen(_, _, _)
DrainIgnoringSeen(q, sn, b) ==
    IF q = <<>> \/ Len(b) >= concurrency
    THEN [queue |-> q, seen |-> sn, batch |-> b]
    ELSE LET c == Head(q)
         IN  IF ~ InScope(scope, base_url, c.url) THEN DrainIgnoringSeen(Tail(q), sn, b)
             ELSE DrainIgnoringSeen(Tail(q), sn \cup {c.url}, Append(b, c))

\* Drain filling the batch while it holds no more than `concurrency` items
RECURSIVE DrainOneTooMany(_, _, _)
DrainOneTooMany(q, sn, b) ==
    IF q = <<>> \/ Len(b) > concurrency
    THEN [queue |-> q, seen |-> sn, batch |-> b]
    ELSE LET c == Head(q)
         IN  IF c.url \in sn THEN DrainOneTooMany(Tail(q), sn, b)
             ELSE IF ~ InScope(scope, base_url, c.url) THEN DrainOneTooMany(Tail(q), sn, b)
             ELSE DrainOneTooMany(Tail(q), sn \cup {c.url}, Append(b, c))

\* Drain putting a candidate that is already in seen back at the end of the
\* queue and ending the batch there
RECURSIVE DrainRequeueSkipped(_, _, _)
DrainRequeueSkipped(q, sn, b) ==
    IF q = <<>> \/ Len(b) >= concurrency
    THEN [queue |-> q, seen |-> sn, batch |-> b]
    ELSE LET c == Head(q)
         IN  IF c.url \in sn THEN [queue |-> Append(Tail(q), c), seen |-> sn, batch |-> b]
             ELSE IF ~ InScope(scope, base_url, c.url)
                  THEN DrainRequeueSkipped(Tail(q), sn, b)
             ELSE DrainRequeueSkipped(Tail(q), sn \cup {c.url}, Append(b, c))

\* the inner while: pops candidates until the batch is full or the queue empty
RECURSIVE Drain(_, _, _)
Drain(q, sn, b) ==
    IF q = <<>> \/ Len(b) >= concurrency
    THEN [queue |-> q, seen |-> sn, batch |-> b]
    ELSE LET c == Head(q)
         IN  IF c.url \in sn THEN Drain(Tail(q), sn, b)
             ELSE IF ~ InScope(scope, base_url, c.url) THEN Drain(Tail(q), sn, b)
             ELSE Drain(Tail(q), sn \cup {c.url}, Append(b, c))

NewTask(item) ==
    [pc |-> "throttle", url |-> item.url, depth |-> item.depth, kind |-> item.kind,
     i |-> 0, sleep |-> 0, gets |-> 0, sleeps |-> <<>>, statuses |-> <<>>,
     result |-> None, outcome |-> ""]

\* one pass of the outer while up to gather (or to `continue` on an empty batch)
DrainBatch ==
    /\ pc = "loop"
    /\ LoopCondition
    /\ LET d == Drain(queue, seen, <<>>)
       IN  /\ queue' = d.queue
           /\ seen' = d.seen
           /\ batch' = d.batch
           /\ tasks' = [k \in 1..Len(d.batch) |-> NewTask(d.batch[k])]
           /\ dispatched' = dispatched \o [k \in 1..Len(d.batch) |-> d.batch[k].url]
           /\ pc' = IF d.batch = <<>> THEN "loop" ELSE "gather"
    /\ UNCHANGED <<config, local_map, written, asset_count, page_count, crawl_log, err_log, summary,
                   rate_lock, last_fetch_age, finished>>

\* the loop condition fails: the summary is computed and written (lines 294-305)
ExitLoop ==
    /\ pc = "loop"
    /\ ~ LoopCondition
    /\ summary' = Append(summary,
                         [base_url |-> base_url, scope |-> scope, max_pages |-> max_pages,
                          visited |-> Cardinality(seen), saved_pages |-> page_count,
                          saved_assets |-> asset_count])
    /\ pc' = "done"
    /\ UNCHANGED <<config, seen, local_map, written, asset_count, page_count, queue, batch, crawl_log,
                   err_log, dispatched, rate_lock, last_fetch_age, tasks, finished>>

(***************************************************************************)
(* _throttle and _fetch_with_retry: the steps of one task between awaits.  *)
(***************************************************************************)
TaskIds == 1..Len(tasks)

\* the wait computed and slept through without holding _rate_lock
AcquireGateUnlocked(t) ==
    /\ pc = "gather"
    /\ tasks[t].pc = "throttle"
    /\ LET wait == rate_interval - last_fetch_age
       IN  IF wait > 0
           THEN /\ tasks' = [tasks EXCEPT ![t].pc = "gate", ![t].sleep = wait]
                /\ UNCHANGED last_fetch_age
           ELSE /\ last_fetch_age' = 0
                /\ tasks' = [tasks EXCEPT ![t].pc = "get", ![t].gets = @ + 1]
    /\ UNCHANGED <<config, crawl_state, finished, rate_lock>>

\* `async with self._rate_lock` is entered: the wait is computed; a task that
\* need not wait stamps _last_fetch_ts, leaves the gate and sends its GET
AcquireGate(t) ==
    /\ pc = "gather"
    /\ tasks[t].pc = "throttle"
    /\ rate_lock = 0
    /\ LET wait == rate_interval - last_fetch_age
       IN  IF wait > 0
           THEN /\ rate_lock' = t
                /\ tasks' = [tasks EXCEPT ![t].pc = "gate", ![t].sleep = wait]
                /\ UNCHANGED last_fetch_age
           ELSE /\ last_fetch_age' = 0
                /\ tasks' = [tasks EXCEPT ![t].pc = "get", ![t].gets = @ + 1]
                /\ UNCHANGED rate_lock
    /\ UNCHANGED <<config, crawl_state, finished>>

\* asyncio.sleep(wait) is over: _last_fetch_ts is stamped, the lock released
\* and the GET sent
GateWake(t) ==
    /\ pc = "gather"
    /\ tasks[t].pc = "gate"
    /\ tasks[t].sleep = 0
    /\ last_fetch_age' = 0
    /\ rate_lock' = 0
    /\ tasks' = [tasks EXCEPT ![t].pc = "get", ![t].gets = @ + 1]
    /\ UNCHANGED <<config, crawl_state, finished>>

\* the statuses the server may answer a GET of url with
Answers(url) == IF url \in server.steady THEN {200} ELSE server.statuses

\* whether a request for url may meet a fault or an oversized body
Unsteady(url) == url \notin server.steady

\* the task's _process_one returns r by the return statement `how`, having
\* received the statuses st
Finish(t, r, st, how) ==
    /\ tasks' = [tasks EXCEPT ![t].pc = "done", ![t].result = Some(r), ![t].statuses = st,
                              ![t].outcome = how]
    /\ finished' = Append(finished, tasks[t].url)

\* client.get raises and nothing catches it: gather re-raises, crawl() ends
\* without logging the batch and without a summary
TransportFaultUncaught(t) ==
    /\ pc = "gather"
    /\ tasks[t].pc = "get"
    /\ Unsteady(tasks[t].url)
    /\ server.fault_msgs # {}
    /\ pc' = "done"
    /\ tasks' = <<>>
    /\ batch' = <<>>
    /\ UNCHANGED <<config, seen, local_map, written, asset_count, page_count, queue, crawl_log,
                   err_log, summary, dispatched, rate_lock, last_fetch_age, finished>>

\* client.get raises (DNS, TLS, reset, timeout): the except branch of _process_one
TransportFault(t) ==
    /\ pc = "gather"
    /\ tasks[t].pc = "get"
    /\ Unsteady(tasks[t].url)
    /\ \E msg \in server.fault_msgs :
          Finish(t, ExceptionResult(tasks[t].url, tasks[t].kind, msg), tasks[t].statuses,
                 "except")
    /\ UNCHANGED <<config, crawl_state, rate_lock, last_fetch_age>>

\* a loop of one iteration more
FourAttempts == 3 + 1

\* `for i in range(3)`
Attempts == 3

\* `if i < 2`
BackoffBelow == 2

\* client.get returns a transient status and the loop has an iteration left:
\* asyncio.sleep(2**i) when i < 2, then the next iteration
RetryableResponse(t) ==
    /\ pc = "gather"
    /\ tasks[t].pc = "get"
    /\ tasks[t].i < Attempts - 1
    /\ \E status \in Answers(tasks[t].url) \cap TransientStatuses :
          IF tasks[t].i < BackoffBelow
          THEN tasks' = [tasks EXCEPT ![t].pc = "backoff", ![t].sleep = 2 ^ tasks[t].i,
                                      ![t].sleeps = Append(@, 2 ^ tasks[t].i),
                                      ![t].statuses = Append(@, status)]
          ELSE tasks' = [tasks EXCEPT ![t].pc = "throttle", ![t].i = @ + 1,
                                      ![t].statuses = Append(@, status)]
    /\ UNCHANGED <<config, crawl_state, rate_lock, last_fetch_age, finished>>

\* the backoff sleep is over: the next iteration of `for i in range(3)`
BackoffWake(t) ==
    /\ pc = "gather"
    /\ tasks[t].pc = "backoff"
    /\ tasks[t].sleep = 0
    /\ tasks' = [tasks EXCEPT ![t].pc = "throttle", ![t].i = @ + 1]
    /\ UNCHANGED <<config, crawl_state, rate_lock, last_fetch_age, finished>>

\* _fetch_with_retry returns resp: a status that is not transient, or the
\* one of the last iteration
Returned(t, status) == status \notin TransientStatuses \/ tasks[t].i = Attempts - 1

\* the size test made after the save: the body is saved, counted and mapped,
\* then reported as too large
TooLargeAfterSave(t) ==
    /\ pc = "gather"
    /\ tasks[t].pc = "get"
    /\ TRUE \in server.large
    /\ Unsteady(tasks[t].url)
    /\ \E status \in Answers(tasks[t].url) :
          /\ Returned(t, status)
          /\ LET p == ProcessResponse(tasks[t].url, tasks[t].kind, status)
             IN  /\ Finish(t, TooLargeResult(tasks[t].url, tasks[t].kind, status,
                                             Lower(SiteBody(tasks[t].url).content_type)),
                           Append(tasks[t].statuses, status), "too large")
                 /\ page_count' = page_count + p.pages
                 /\ asset_count' = asset_count + p.assets
                 /\ local_map' = [u \in DOMAIN local_map \cup {tasks[t].url} |->
                                     IF u = tasks[t].url THEN p.local_path ELSE local_map[u]]
    /\ UNCHANGED <<config, seen, written, queue, batch, crawl_log, err_log, summary, pc,
                   dispatched, rate_lock, last_fetch_age>>

\* the returned response is over the 10 MiB ceiling (lines 319-320)
TooLarge(t) ==
    /\ pc = "gather"
    /\ tasks[t].pc = "get"
    /\ TRUE \in server.large
    /\ Unsteady(tasks[t].url)
    /\ \E status \in Answers(tasks[t].url) :
          /\ Returned(t, status)
          /\ Finish(t, TooLargeResult(tasks[t].url, tasks[t].kind, status,
                                      Lower(SiteBody(tasks[t].url).content_type)),
                    Append(tasks[t].statuses, status), "too large")
    /\ UNCHANGED <<config, crawl_state, rate_lock, last_fetch_age>>

\* mkdir or the write of the body raises: the except branch, nothing counted
SaveFault(t) ==
    /\ pc = "gather"
    /\ tasks[t].pc = "get"
    /\ Unsteady(tasks[t].url)
    /\ \E status \in Answers(tasks[t].url), msg \in server.disk_msgs :
          /\ Returned(t, status)
          /\ Finish(t, ExceptionResult(tasks[t].url, tasks[t].kind, msg),
                    Append(tasks[t].statuses, status), "except")
    /\ UNCHANGED <<config, crawl_state, rate_lock, last_fetch_age>>

\* the returned response is saved, counted and mapped (lines 322-362)
Saved(t) ==
    /\ pc = "gather"
    /\ tasks[t].pc = "get"
    /\ \E status \in Answers(tasks[t].url) :
          /\ Returned(t, status)
          /\ LET p == ProcessResponse(tasks[t].url, tasks[t].kind, status)
             IN  /\ Finish(t, p.result, Append(tasks[t].statuses, status), "saved")
                 /\ page_count' = page_count + p.pages
                 /\ asset_count' = asset_count + p.assets
                 /\ local_map' = [u \in DOMAIN local_map \cup {tasks[t].url} |->
                                     IF u = tasks[t].url THEN p.local_path ELSE local_map[u]]
                 /\ written' = IF p.rendered = None THEN written
                               ELSE [u \in DOMAIN written \cup {tasks[t].url} |->
                                        IF u = tasks[t].url THEN p.rendered[1] ELSE written[u]]
    /\ UNCHANGED <<config, seen, queue, batch, crawl_log, err_log, summary, pc, dispatched,
                   rate_lock, last_fetch_age>>

\* a second passes while crawl() awaits its batch
Tick ==
    /\ pc = "gather"
    /\ last_fetch_age < Horizon \/ \E t \in TaskIds : tasks[t].sleep > 0
    /\ last_fetch_age' = Min(last_fetch_age + 1, Horizon)
    /\ tasks' = [t \in TaskIds |-> [tasks[t] EXCEPT !.sleep = Max(0, @ - 1)]]
    /\ UNCHANGED <<config, crawl_state, rate_lock, finished>>

(***************************************************************************)
(* crawl(): gather returns, the results are logged and their links         *)
(* enqueued (lines 279-292).                                               *)
(***************************************************************************)
\* the results in the order in which the tasks of the batch completed
GatherResultsByCompletion ==
    LET n == Len(tasks)
        m == Len(finished) - n
    IN  [k \in 1..n |->
            tasks[CHOOSE t \in 1..n : tasks[t].url = finished[m + k]].result[1]]

\* asyncio.gather: the results in the order of the batch
GatherResults == [k \in 1..Len(tasks) |-> tasks[k].result[1]]

\* the inner loop testing `depth <= self.max_depth`
RECURSIVE EnqueuedOffByOne(_, _)
EnqueuedOffByOne(links, depth) ==
    IF links = <<>> THEN <<>>
    ELSE LET link  == Head(links)
             lkind == IF LooksLikePage(link) THEN "page" ELSE "asset"
             keep  == /\ depth <= max_depth
                      /\ link \notin seen
                      /\ lkind = "asset" => ClassifyAsset(<<>>, link.path) \in include_assets
         IN  (IF keep THEN <<[url |-> link, depth |-> depth + 1, kind |-> lkind]>> ELSE <<>>)
             \o EnqueuedOffByOne(Tail(links), depth)

\* the queue items the inner loop appends for one result of depth `depth`
RECURSIVE Enqueued(_, _)
Enqueued(links, depth) ==
    IF links = <<>> THEN <<>>
    ELSE LET link  == Head(links)
             lkind == IF LooksLikePage(link) THEN "page" ELSE "asset"
             keep  == /\ depth + 1 <= max_depth
                      /\ link \notin seen
                      /\ lkind = "asset" => ClassifyAsset(<<>>, link.path) \in include_assets
         IN  (IF keep THEN <<[url |-> link, depth |-> depth + 1, kind |-> lkind]>> ELSE <<>>)
             \o Enqueued(Tail(links), depth)

RECURSIVE EnqueuedAll(_, _)
EnqueuedAll(results, items) ==
    IF results = <<>> \/ items = <<>> THEN <<>>
    ELSE Enqueued(Head(results).discovered_links, Head(items).depth)
         \o EnqueuedAll(Tail(results), Tail(items))

HasError(r) == Truthy(r.error)

MergeResults ==
    /\ pc = "gather"
    /\ \A t \in TaskIds : tasks[t].pc = "done"
    /\ LET results == GatherResults
       IN  /\ crawl_log' = crawl_log \o SubSeq(results, 1, Min(Len(results), Len(batch)))
           /\ err_log' = err_log \o SelectSeq(SubSeq(results, 1, Min(Len(results), Len(batch))), HasError)
           /\ queue' = queue \o EnqueuedAll(results, batch)
    /\ batch' = <<>>
    /\ tasks' = <<>>
    /\ pc' = "loop"
    /\ UNCHANGED <<config, seen, local_map, written, asset_count, page_count, summary, dispatched,
                   rate_lock, last_fetch_age, finished>>

(***************************************************************************)
(* Specifications.                                                         *)
(***************************************************************************)
Next ==
    \/ DrainBatch
    \/ ExitLoop
    \/ \E t \in TaskIds : AcquireGate(t)
    \/ \E t \in TaskIds : GateWake(t)
    \/ \E t \in TaskIds : TransportFault(t)
    \/ \E t \in TaskIds : RetryableResponse(t)
    \/ \E t \in TaskIds : BackoffWake(t)
    \/ \E t \in TaskIds : TooLarge(t)
    \/ \E t \in TaskIds : SaveFault(t)
    \/ \E t \in TaskIds : Saved(t)
    \/ Tick
    \/ MergeResults

Scopes == {"same-origin", "same-host", "all"}

MaxPagesBound == 3

MaxDepthBound == 2

MaxConcurrency == 2

SeedUrl == Plain(HTTP, HostA, <<>>)

\* a server that answers 200 or 404 or drops the connection
PlainServer ==
    [statuses |-> {200, 404}, fault_msgs |-> {"ConnectError"}, large |-> {FALSE},
     disk_msgs |-> {}, steady |-> {}]

\* a server that also answers 503 and sends oversized bodies, on a disk that may fail
FlakyServer ==
    [statuses |-> {200, 503}, fault_msgs |-> {"ConnectError"}, large |-> {FALSE, TRUE},
     disk_msgs |-> {"OSError"}, steady |-> {}]

\* a server whose requests may time out: the exception httpx raises then has
\* an empty text, so that str(exc) is ""
TimeoutServer ==
    [statuses |-> {200, 404}, fault_msgs |-> {""}, large |-> {FALSE},
     disk_msgs |-> {}, steady |-> {}]

\* the include sets the caller may supply: none (an empty --include-assets),
\* stylesheets only, and the command line's default
SuppliedAssets == { {}, {"css"}, DefaultAssets }

\* a seed that is a script rather than a page: crawl() queues the seed with
\* kind "page" whatever its URL looks like (line 257)
ScriptSeedUrl == UrlJs

\* every budget, scope, depth and concurrency against the plain server, one
\* crawl of the seed's own pages against the flaky one, one fetch at a time
\* with each include set against the server that times out, and one crawl
\* that starts at a script
Init ==
    /\ call = NoCall
    /\ \/ \E pages \in 1..MaxPagesBound, sc \in Scopes, depth \in 0..MaxDepthBound,
             conc \in 0..MaxConcurrency :
              Construct(SeedUrl, pages, sc, DefaultAssets, depth, conc, 1, PlainServer)
       \/ Construct(SeedUrl, MaxPagesBound, "same-origin", DefaultAssets, 1, MaxConcurrency,
                    1, FlakyServer)
       \/ \E assets \in SuppliedAssets :
              Construct(SeedUrl, 2, "same-origin", assets, 1, 1, 1, TimeoutServer)
       \/ Construct(ScriptSeedUrl, 2, "same-origin", DefaultAssets, 1, 1, 1, PlainServer)

Spec == Init /\ [][Next]_vars

\* a server for the fetcher: success, a permanent error, two transient ones,
\* dropped connections and oversized bodies, on a disk that may fail
RetryServer ==
    [statuses |-> {200, 404, 429, 503}, fault_msgs |-> {"ConnectError"},
     large |-> {FALSE, TRUE}, disk_msgs |-> {"OSError"}, steady |-> {}]

\* a server whose seed page is healthy and whose other pages answer 200 or 503
BusyServer ==
    [statuses |-> {200, 503}, fault_msgs |-> {}, large |-> {FALSE}, disk_msgs |-> {},
     steady |-> {UrlRoot}]

MaxRatePeriod == 11

\* rates of one request per 3 and per MaxRatePeriod seconds: the last is below
\* the 0.1 requests per second that __init__ raises rate_rps to
RatePeriods == {3, MaxRatePeriod}

\* two concurrent fetches against the busy server at each rate, and one fetch
\* at a time against the retry server
InitPacing ==
    /\ call = NoCall
    /\ \/ \E period \in RatePeriods :
             Construct(SeedUrl, 2, "same-origin", DefaultAssets, 1, 2, period, BusyServer)
       \/ Construct(SeedUrl, 2, "same-origin", DefaultAssets, 1, 1, 1, RetryServer)

SpecPacing == InitPacing /\ [][Next]_vars

(***************************************************************************)
(* _normalize_url and _classify_asset called on their own, on every        *)
(* argument of a bounded set.                                              *)
(***************************************************************************)
\* what precedes the path: nothing, a bare host, a scheme-relative host, and
\* absolute http and https origins
UrlPrefixes ==
    { <<>>, <<"a">>, <<"/", "/", "a">>, <<"h", "t", "t", "p", ":", "/", "/", "a">>, <<"H", "T", "T", "P", "S", ":", "/", "/", "A">> }

MaxPathLen == 3

\* every text of "/" and "x" of up to MaxPathLen characters
PathTexts == UNION { [1..n -> {"/", "x"}] : n \in 0..MaxPathLen }

\* no query, a plain parameter, a tracking parameter, and a tracking
\* parameter in capitals between two plain ones
QueryTexts ==
    { <<>>, <<"b", "=", "2">>, <<"u", "t", "m", "_", "s", "o", "u", "r", "c", "e", "=", "1">>, <<"b", "=", "2", "&", "U", "T", "M", "_", "t", "e", "r", "m", "=", "x", "&", "a", "=", "1">> }

FragmentTexts == { <<>>, <<"f">> }

\* the URL string of these parts
Compose(prefix, path, query, fragment) ==
    prefix \o path
    \o (IF query = <<>> THEN <<>> ELSE <<"?">> \o query)
    \o (IF fragment = <<>> THEN <<>> ELSE <<"#">> \o fragment)

\* a URL that differs from Compose(prefix, path, query, fragment) in one way
Vary(how, prefix, path, query, fragment) ==
    CASE how = "fragment" -> Compose(prefix, path, query, fragment \o <<"g">>)
      [] how = "tracking" ->
            Compose(prefix, path,
                    (IF query = <<>> THEN <<>> ELSE query \o <<"&">>) \o <<"U", "T", "M", "_", "S", "o", "u", "r", "c", "e", "=", "1">>,
                    fragment)
      [] how = "slash" -> Compose(prefix, path \o <<"/">>, query, fragment)
      [] OTHER -> Compose(prefix, path, query, fragment)

Variations == {"same", "fragment", "tracking", "slash"}

ContentTypes ==
    { <<>>, <<"t", "e", "x", "t", "/", "j", "a", "v", "a", "s", "c", "r", "i", "p", "t">>, <<"t", "e", "x", "t", "/", "c", "s", "s">>, <<"T", "E", "X", "T", "/", "C", "S", "S">>, <<"f", "o", "n", "t", "/", "w", "o", "f", "f", "2">>, <<"i", "m", "a", "g", "e", "/", "p", "n", "g">>, <<"a", "p", "p", "l", "i", "c", "a", "t", "i", "o", "n", "/", "p", "d", "f">> }

AssetPaths ==
    { <<"/", "a", ".", "j", "s">>, <<"/", "a", ".", "m", "j", "s">>, <<"/", "a", ".", "c", "s", "s">>, <<"/", "a", ".", "w", "o", "f", "f", "2">>, <<"/", "a", ".", "p", "n", "g">>, <<"/", "a", ".", "p", "d", "f">>, <<"/", "a">>, <<"/", "A", ".", "J", "S">> }

\* a crawler constructed with the defaults, one of whose methods is about to
\* be called: _normalize_url on a URL and on a variation of it, or
\* _classify_asset on a content type and a path
InitFunctions ==
    /\ Construct(SeedUrl, 1, "same-origin", DefaultAssets, 0, 1, 1, PlainServer)
    /\ \/ \E how \in Variations, prefix \in UrlPrefixes, path \in PathTexts,
              query \in QueryTexts, fragment \in FragmentTexts :
              call = [fn |-> "_normalize_url", how |-> how,
                      args |-> <<Compose(prefix, path, query, fragment),
                                 Vary(how, prefix, path, query, fragment)>>,
                      outs |-> <<>>, again |-> <<>>]
       \/ \E content_type \in ContentTypes, path \in AssetPaths :
              call = [fn |-> "_classify_asset", how |-> "same",
                      args |-> <<content_type, path>>, outs |-> <<>>, again |-> <<>>]

crawler == <<settings, crawl_state, rate_lock, last_fetch_age, tasks, finished>>

\* _normalize_url is called on the next argument
NormalizeCall ==
    /\ call.fn = "_normalize_url"
    /\ Len(call.outs) < Len(call.args)
    /\ call' = [call EXCEPT !.outs = Append(@, NormalizeUrlText(call.args[Len(call.outs) + 1]))]
    /\ UNCHANGED crawler

\* _normalize_url is called on what it returned
NormalizeAgain ==
    /\ call.fn = "_normalize_url"
    /\ Len(call.outs) = Len(call.args)
    /\ Len(call.again) < Len(call.outs)
    /\ call' = [call EXCEPT !.again = Append(@, NormalizeUrlText(call.outs[Len(call.again) + 1]))]
    /\ UNCHANGED crawler

\* _classify_asset is called
ClassifyCall ==
    /\ call.fn = "_classify_asset"
    /\ call.outs = <<>>
    /\ call' = [call EXCEPT !.outs = <<ClassifyAsset(call.args[1], call.args[2])>>]
    /\ UNCHANGED crawler

NextFunctions ==
    \/ NormalizeCall
    \/ NormalizeAgain
    \/ ClassifyCall

SpecFunctions == InitFunctions /\ [][NextFunctions]_vars

(***************************************************************************)
(* Properties.                                                             *)
(***************************************************************************)
Distinct(s) == \A i, j \in 1..Len(s) : i # j => s[i] # s[j]

LogUrls(log) == [k \in 1..Len(log) |-> log[k].url]

\* the results that exist: those of finished tasks and those logged
Results ==
    { tasks[t].result[1] : t \in { x \in TaskIds : tasks[x].result # None } }
    \cup Range(crawl_log)

\* C1: no canonical URL is handed to _process_one twice: every URL
\* dispatched so far is distinct and is in seen while its fetch runs; a step
\* dispatches only URLs that were not in seen, puts them into seen in that
\* same step, and never removes a URL from seen.
C1_Invariant ==
    /\ Distinct(dispatched)
    /\ Range(dispatched) \subseteq seen
    /\ \A t \in TaskIds : tasks[t].url \in seen

C1_Step ==
    /\ seen \subseteq seen'
    /\ \A k \in (Len(dispatched) + 1)..Len(dispatched') :
          dispatched'[k] \notin seen /\ dispatched'[k] \in seen'

C1_FetchedAtMostOnce == [] C1_Invariant /\ [][C1_Step]_vars

\* a finished crawl of four or more URLs in which a page fetched later linked
\* back to a URL fetched before it
C1_Witness ==
    /\ pc = "done"
    /\ Len(dispatched) >= 4
    /\ \E i, j \in 1..Len(crawl_log) :
          i < j /\ crawl_log[i].url \in Range(crawl_log[j].discovered_links)

\* C2 (as claimed): the number of saved pages never exceeds max_pages.
C2_PageBudget == page_count <= max_pages

\* C3: the seed has depth 0, every queue item and every task has a depth in
\* 0..max_depth, a link enqueued when a batch is merged has the depth of a
\* batch member that discovered it plus one, and with max_depth = 0 nothing but
\* the seed is ever fetched or enqueued.
C3_Invariant ==
    /\ \A k \in 1..Len(queue) :
          /\ queue[k].depth \in 0..max_depth
          /\ queue[k].url = base_url => queue[k].depth = 0
    /\ \A t \in TaskIds :
          /\ tasks[t].depth \in 0..max_depth
          /\ tasks[t].url = base_url => tasks[t].depth = 0
    /\ max_depth = 0 =>
          /\ Range(dispatched) \subseteq {base_url}
          /\ \A k \in 1..Len(queue) : queue[k].url = base_url

C3_Step ==
    (pc = "gather" /\ pc' = "loop") =>
        /\ Len(queue') >= Len(queue)
        /\ SubSeq(queue', 1, Len(queue)) = queue
        /\ \A k \in (Len(queue) + 1)..Len(queue') :
              \E j \in 1..Len(batch) :
                  /\ queue'[k].url \in Range(tasks[j].result[1].discovered_links)
                  /\ queue'[k].depth = batch[j].depth + 1

C3_DepthLimit == [] C3_Invariant /\ [][C3_Step]_vars

\* a crawl with max_depth = 1 that ended on an empty queue below its page
\* budget: /p was fetched at depth 1 and linked to /r, which was never fetched
C3_Witness ==
    /\ max_depth = 1
    /\ pc = "done"
    /\ queue = <<>>
    /\ page_count < max_pages
    /\ UrlR \notin Range(dispatched)
    /\ \E k \in 1..Len(crawl_log) :
          crawl_log[k].url = UrlP /\ UrlR \in Range(crawl_log[k].discovered_links)

\* the host of a network location: without user information and port
HostOf(netloc) ==
    LET rest  == SubSeq(netloc, LastIndexOf(netloc, "@") + 1, Len(netloc))
        colon == FirstIndexOf(rest, ":")
    IN  IF colon = 0 THEN rest ELSE SubSeq(rest, 1, colon - 1)

InScopeAsClaimed(u) ==
    /\ u.scheme \notin ExcludedSchemes
    /\ scope = "same-origin" =>
          u.scheme = base_url.scheme /\ HostOf(u.netloc) = HostOf(base_url.netloc)
    /\ scope = "same-host" => HostOf(u.netloc) = HostOf(base_url.netloc)

\* C4: every URL handed to _process_one, and every discovered link of every
\* result, is in scope under the configured mode: no mailto/tel/javascript/data
\* scheme; scheme and host those of the seed under same-origin; host that of
\* the seed under same-host.
C4_AllInScope ==
    /\ \A k \in 1..Len(dispatched) : InScopeAsClaimed(dispatched[k])
    /\ \A r \in Results : \A k \in 1..Len(r.discovered_links) :
          InScopeAsClaimed(r.discovered_links[k])

\* under same-origin the seed page, whose HTML links to another host, to
\* another scheme and to a mailto address, was fetched and its links followed
C4_Witness ==
    /\ scope = "same-origin"
    /\ Len(crawl_log) >= 2
    /\ crawl_log[1].url = base_url
    /\ UrlOther \in SiteBody(base_url).html_links
    /\ UrlMail \in SiteBody(base_url).html_links
    /\ crawl_log[1].discovered_links # <<>>
    /\ UrlOther \notin Range(crawl_log[1].discovered_links)

\* the fetch of task k failed: an exception, an oversized body, or a saved
\* response whose status is not 2xx
OwnFailure(k) ==
    \/ k.outcome \in {"except", "too large"}
    \/ k.outcome = "saved" /\ ~ (k.statuses[Len(k.statuses)] \in 200..299)

C7_Invariant ==
    /\ \A t \in TaskIds :
          tasks[t].pc = "done" =>
              /\ tasks[t].result # None
              /\ tasks[t].result[1].url = tasks[t].url
              /\ tasks[t].result[1].error # None <=> OwnFailure(tasks[t])
    /\ pc = "done" => LogUrls(crawl_log) = dispatched
    /\ LogUrls(err_log) = LogUrls(SelectSeq(crawl_log, HasError))

C7_Step ==
    (pc = "gather" /\ pc' # "gather") =>
        /\ pc' = "loop"
        /\ \A k \in 1..Len(batch) : tasks[k].url = batch[k].url
        /\ crawl_log' = crawl_log \o [k \in 1..Len(batch) |-> tasks[k].result[1]]
        /\ queue' = queue \o EnqueuedAll([k \in 1..Len(batch) |-> tasks[k].result[1]], batch)

\* C7: a failure inside one URL's fetch becomes the result of that URL, with
\* its error set, and of no other; no batch is abandoned: when gather returns
\* every member of the batch is logged with its own result, the links of the
\* batch are enqueued and the loop goes on, so that at the end of the crawl
\* every dispatched URL has exactly one record in the crawl log.
C7_FailureIsolated == [] C7_Invariant /\ [][C7_Step]_vars

\* a batch of two whose first member was saved and whose second failed with an
\* exception, followed by a further batch whose fetch succeeded
C7_Witness ==
    /\ concurrency = 2
    /\ Len(crawl_log) >= 4
    /\ dispatched[2] = UrlJs /\ dispatched[3] = UrlP
    /\ crawl_log[2].error = None
    /\ crawl_log[3].status_code = None /\ crawl_log[3].error # None
    /\ crawl_log[4].error = None

\* C8: while a batch is awaited the crawl log holds exactly the records of the
\* URLs dispatched before it, in the order they were drained; outside the
\* await it holds those of all dispatched URLs in that order, whatever the
\* order in which the tasks completed.
C8_LogInDrainOrder ==
    /\ pc = "gather" =>
          /\ Len(batch) <= Len(dispatched)
          /\ LogUrls(crawl_log) = SubSeq(dispatched, 1, Len(dispatched) - Len(batch))
    /\ pc # "gather" => LogUrls(crawl_log) = dispatched

\* a batch of two was logged in drain order although its second member
\* completed before its first
C8_Witness ==
    LET n == Len(finished)
    IN  /\ pc = "loop"
        /\ n >= 3
        /\ Len(crawl_log) = n
        /\ finished[n] = dispatched[n - 1]
        /\ finished[n - 1] = dispatched[n]
        /\ crawl_log[n - 1].url = finished[n]
        /\ crawl_log[n].url = finished[n - 1]

\* the number of fetch operations in flight
InFlight == Cardinality({t \in TaskIds : tasks[t].pc # "done"})

OneBatchInFlight ==
    /\ pc = "gather" => /\ Len(tasks) = Len(batch)
                        /\ \A k \in 1..Len(batch) : tasks[k].url = batch[k].url
    /\ pc # "gather" => tasks = <<>>

\* C10 (as amended): a dispatched batch holds between 1 and
\* max(1, configured concurrency) items, no more fetches than that are ever in
\* flight, and the fetches in flight are those of the one batch being awaited.
C10_BatchBound ==
    /\ pc = "gather" => Len(batch) \in 1..Max(1, args.concurrency)
    /\ InFlight <= Max(1, args.concurrency)
    /\ OneBatchInFlight

\* C10 (as claimed): a dispatched batch holds between 1 and the configured
\* concurrency items, and no more fetches than the configured concurrency are
\* ever in flight.
C10_AsClaimed ==
    /\ pc = "gather" => Len(batch) \in 1..args.concurrency
    /\ InFlight <= args.concurrency
    /\ OneBatchInFlight

\* a full batch of two with both fetches in flight
C10_Witness ==
    /\ pc = "gather"
    /\ args.concurrency = 2
    /\ Len(batch) = 2
    /\ InFlight = 2

(***************************************************************************)
(* Termination, checked under LiveSpec: the event loop runs a task that    *)
(* can take a step, every request completes, time passes.                  *)
(***************************************************************************)
InitLive ==
    /\ call = NoCall
    /\ \E pages \in 1..MaxPagesBound :
           Construct(SeedUrl, pages, "same-origin", DefaultAssets, MaxDepthBound, 1, 1,
                     FlakyServer)

LiveSpec == InitLive /\ [][Next]_vars /\ WF_vars(Next)

C9_AtEnd ==
    /\ pc = "done" => /\ queue = <<>> \/ page_count >= max_pages
                      /\ Len(summary) = 1
                      /\ summary[1].saved_pages = page_count
                      /\ tasks = <<>>
    /\ pc # "done" => summary = <<>>

C9_Step ==
    /\ (pc = "loop" /\ (queue = <<>> \/ page_count >= max_pages)) =>
          pc' = "done" /\ dispatched' = dispatched
    /\ dispatched' # dispatched => queue # <<>> /\ page_count < max_pages
    /\ pc = "done" => UNCHANGED vars

\* C9: the crawl ends: no batch is dispatched once the queue is empty or the
\* saved-page count has reached max_pages, the loop is then left, and the
\* summary is computed and written exactly once, after which nothing changes.
C9_Terminates ==
    /\ <>(pc = "done")
    /\ [] C9_AtEnd
    /\ [][C9_Step]_vars

\* a crawl that ended on its page budget with links still in the queue
C9_Witness ==
    /\ pc = "done"
    /\ Len(summary) = 1
    /\ queue # <<>>
    /\ page_count >= max_pages
    /\ Len(dispatched) >= 2

(***************************************************************************)
(* Retries and pacing, checked under SpecPacing.                           *)
(***************************************************************************)
\* the retry discipline of one task, up to the return of the response
RetryDiscipline(k) ==
    /\ k.gets <= 3
    /\ Len(k.statuses) \in {k.gets - 1, k.gets} \cap Nat
    /\ \A j \in 1..Len(k.statuses) :
          /\ j < k.gets => k.statuses[j] \in {429, 500, 502, 503, 504}
          /\ k.statuses[j] \notin {429, 500, 502, 503, 504} =>
                j = Len(k.statuses) /\ k.pc = "done"
    /\ k.sleeps = SubSeq(<<1, 2>>, 1, Len(k.sleeps))
    /\ k.pc \in {"get", "done"} => Len(k.sleeps) = k.gets - 1
    /\ k.pc \in {"backoff", "throttle", "gate"} => Len(k.sleeps) = k.gets
    /\ k.pc = "backoff" => k.sleep <= k.sleeps[Len(k.sleeps)]
    /\ Len(k.statuses) = 3 => k.pc = "done"

ThirdTransient(k) ==
    Len(k.statuses) = 3 /\ k.statuses[3] \in {429, 500, 502, 503, 504}

\* C5 (as amended): a URL is requested at most three times, a further request
\* follows only a 429/500/502/503/504 response, after a sleep of 1 s and then
\* of 2 s, and any other status ends the fetch at once.  The third transient
\* response is returned: its result carries the status code and the error
\* "HTTP <code>" when the body is saved, the status code and "response too
\* large" when the body is over the ceiling, and no status code but the
\* exception's text when saving the body raises.
C5_RetryPolicy ==
    \A t \in TaskIds :
        /\ RetryDiscipline(tasks[t])
        /\ ThirdTransient(tasks[t]) =>
              LET r    == tasks[t].result[1]
                  code == tasks[t].statuses[3]
              IN  /\ tasks[t].outcome \in {"saved", "too large", "except"}
                  /\ tasks[t].outcome = "saved" =>
                        r.status_code = Some(code) /\ r.error = Some(HttpError(code))
                  /\ tasks[t].outcome = "too large" =>
                        r.status_code = Some(code) /\ r.error = Some("response too large")
                  /\ tasks[t].outcome = "except" =>
                        r.status_code = None /\ Truthy(r.error)

\* C5 (as claimed): the same discipline, and after the third transient
\* response the result always has the status code set and error "HTTP <code>".
C5_AsClaimed ==
    \A t \in TaskIds :
        /\ RetryDiscipline(tasks[t])
        /\ ThirdTransient(tasks[t]) =>
              LET r    == tasks[t].result[1]
                  code == tasks[t].statuses[3]
              IN  r.status_code = Some(code) /\ r.error = Some(HttpError(code))

\* a URL answered 503 three times: three requests, sleeps of 1 s and 2 s, the
\* third response saved and reported as "HTTP 503"
C5_Witness ==
    \E t \in TaskIds :
        /\ tasks[t].pc = "done"
        /\ tasks[t].statuses = <<503, 503, 503>>
        /\ tasks[t].gets = 3
        /\ tasks[t].sleeps = <<1, 2>>
        /\ tasks[t].outcome = "saved"
        /\ tasks[t].result[1].error = Some("HTTP 503")

\* no two tasks are inside the gate, and the holder of the lock is the one
C6_Mutex ==
    /\ \A t1, t2 \in TaskIds :
          (tasks[t1].pc = "gate" /\ tasks[t2].pc = "gate") => t1 = t2
    /\ rate_lock # 0 => rate_lock \in TaskIds /\ tasks[rate_lock].pc = "gate"
    /\ \A t \in TaskIds : tasks[t].pc = "gate" => rate_lock = t

\* a step in which a task leaves the gate and sends a request
GatePassage ==
    \E t \in TaskIds :
        t \in 1..Len(tasks') /\ tasks'[t].gets = tasks[t].gets + 1

\* C6 (as amended): the gate holds one task at a time, and a task leaves it no
\* sooner than min(1/rate_rps, 10) seconds after the previous passage,
\* retries and concurrent tasks included.
C6_Pacing ==
    /\ [] C6_Mutex
    /\ [][GatePassage =>
             /\ last_fetch_age >= Min(args.rate_period, 10)
             /\ last_fetch_age' = 0]_vars

\* C6 (as claimed): the gate holds one task at a time, and a task leaves it no
\* sooner than 1/rate_rps seconds after the previous passage.
C6_AsClaimed ==
    /\ [] C6_Mutex
    /\ [][GatePassage => last_fetch_age >= args.rate_period]_vars

\* at a rate below 0.1 rps two tasks of one batch have both sent a request,
\* the second of them just now
C6_Witness ==
    /\ args.rate_period = MaxRatePeriod
    /\ Len(tasks) = 2
    /\ tasks[1].gets >= 1
    /\ tasks[2].gets >= 1
    /\ last_fetch_age = 0

(***************************************************************************)
(* The logs and the results.                                               *)
(***************************************************************************)
ErrorSet(r) == r.error # None

\* C11 (as claimed): errors.jsonl holds exactly the crawl.jsonl records whose
\* error is set, whatever the failure description, in the same order.
C11_ErrorLog == err_log = SelectSeq(crawl_log, ErrorSet)

\* the last GET of task k raised: no response was received
FetchFailed(k) == Len(k.statuses) < k.gets

\* the last status task k received is not 2xx
NonSuccess(k) ==
    k.statuses # <<>> /\ ~ (k.statuses[Len(k.statuses)] \in 200..299)

C16_MergedAfterBatch ==
    [][(local_map' # local_map \/ page_count' # page_count \/ asset_count' # asset_count)
          => Cardinality({t \in TaskIds : tasks[t].pc # "done"}) <= 1]_vars

\* C17 (as claimed): the queue never holds two entries for the same URL.
C17_NoDuplicateInQueue == Distinct(LogUrls(queue))

\* C19 (as claimed): a queue entry of kind asset has an asset kind, classified
\* from its path, that is in the include set the caller supplied.
C19_SuppliedIncludeSet ==
    \A k \in 1..Len(queue) :
        queue[k].kind = "asset" =>
            ClassifyAsset(<<>>, queue[k].url.path) \in args.include_assets

\* a fetch ends here for task t, by a GET that raised or an oversized body
EndsWithoutSave(t) ==
    /\ t \in 1..Len(tasks')
    /\ tasks[t].pc # "done"
    /\ tasks'[t].pc = "done"
    /\ FetchFailed(tasks'[t]) \/ tasks'[t].outcome = "too large"

C20_Invariant ==
    \A t \in TaskIds :
        (tasks[t].pc = "done" /\ (FetchFailed(tasks[t]) \/ tasks[t].outcome = "too large")) =>
            LET k == tasks[t]
                r == k.result[1]
            IN  /\ k.url \notin DOMAIN local_map
                /\ r.local_path = None
                /\ r.error # None
                /\ FetchFailed(k) => r.status_code = None
                /\ k.outcome = "too large" =>
                      /\ r.error = Some("response too large")
                      /\ r.status_code = Some(k.statuses[Len(k.statuses)])

C20_Step ==
    \A t \in TaskIds :
        EndsWithoutSave(t) => UNCHANGED <<local_map, page_count, asset_count>>

\* C20: a fetch that ends in a transport failure or an oversized body saves
\* nothing: local_map, page_count and asset_count are unchanged by it, and
\* its result has no local path and an error, with no status code for a
\* transport failure and "response too large" for an oversized body.
C20_NothingSaved == [] C20_Invariant /\ [][C20_Step]_vars

\* a batch of two of which one member's GET raised and the other's body was
\* oversized, with only the seed saved
C20_Witness ==
    /\ Len(tasks) = 2
    /\ tasks[1].pc = "done" /\ FetchFailed(tasks[1])
    /\ tasks[2].pc = "done" /\ tasks[2].outcome = "too large"
    /\ DOMAIN local_map = {UrlRoot}
    /\ page_count = 1 /\ asset_count = 0

\* C18 (as claimed): when a page is saved, each of its references whose
\* canonical target has an entry in local_map at that moment is replaced by
\* "../" followed by the target's local path relative to the output root, and
\* every other reference is left as it was.
C18_RewrittenRelative ==
    [][\A u \in DOMAIN written' \ DOMAIN written :
          \A ref \in DOMAIN written'[u] :
              IF NormalizeUrl(ref) \in DOMAIN local_map
              THEN written'[u][ref] =
                      [form |-> "../relative", local |-> local_map[NormalizeUrl(ref)]]
              ELSE written'[u][ref].form = "unchanged"]_vars

SavedRecords(kind) ==
    { k \in 1..Len(crawl_log) : crawl_log[k].kind = kind /\ crawl_log[k].local_path # None }

\* C21 (as claimed): when a crawl has ended, the summary it wrote agrees with
\* the crawl log: visited is the size of seen and the number of records,
\* saved_pages the number of records of kind page with a local path, and
\* saved_assets the number of records of kind asset with a local path.
C21_SummaryAgreesWithLog ==
    pc = "done" =>
        LET s == summary[Len(summary)]
        IN  /\ s.visited = Cardinality(seen)
            /\ s.visited = Len(crawl_log)
            /\ s.saved_pages = Cardinality(SavedRecords("page"))
            /\ s.saved_assets = Cardinality(SavedRecords("asset"))

\* the same for the two counts of records only
C21_VisitedAgrees ==
    pc = "done" =>
        /\ summary[Len(summary)].visited = Cardinality(seen)
        /\ summary[Len(summary)].visited = Len(crawl_log)

(***************************************************************************)
(* The pure methods, checked under SpecFunctions.                          *)
(***************************************************************************)
\* C13 (as claimed): canonicalising a canonical URL gives it back:
\* _normalize_url(_normalize_url(u)) = _normalize_url(u), for URLs without
\* scheme, with an empty path and with paths of slashes alike.
C13_Idempotent ==
    call.fn = "_normalize_url" =>
        \A i \in 1..Len(call.again) : call.again[i] = call.outs[i]

\* C14 (as claimed): two URLs that differ only by their fragment, by a
\* tracking parameter in any letter case or by one trailing slash on the path
\* have the same canonical form, in which the parameters that are not
\* tracking parameters are kept in order and the root path "/" is kept.
C14_SameTarget ==
    (call.fn = "_normalize_url" /\ Len(call.outs) = 2) =>
        /\ call.outs[1] = call.outs[2]
        /\ UrlParse(call.outs[1]).query = StripTracking(UrlParse(call.args[1]).query)
        /\ UrlParse(call.args[1]).path = <<"/">> => UrlParse(call.outs[1]).path = <<"/">>

\* the asset kind the content type alone names, "" when it names none
KindOfContentType(content_type) ==
    LET ctype == Lower(content_type)
    IN  IF Contains(ctype, <<"j", "a", "v", "a", "s", "c", "r", "i", "p", "t">>) THEN "js"
        ELSE IF Contains(ctype, <<"c", "s", "s">>) THEN "css"
        ELSE IF ContainsAny(ctype, {<<"f", "o", "n", "t">>, <<"w", "o", "f", "f">>, <<"t", "t", "f">>})
        THEN "font"
        ELSE IF ContainsAny(ctype, {<<"i", "m", "a", "g", "e">>, <<"s", "v", "g">>}) THEN "img"
        ELSE ""

\* the asset kind the extension of the path alone names, "misc" when none
KindOfExtension(path) ==
    LET path_l == Lower(path)
    IN  IF EndsWithAny(path_l, JsExts) THEN "js"
        ELSE IF EndsWith(path_l, <<".", "c", "s", "s">>) THEN "css"
        ELSE IF EndsWithAny(path_l, FontExts) THEN "font"
        ELSE IF EndsWithAny(path_l, ImgExts) THEN "img"
        ELSE "misc"

\* C15 (as claimed): _classify_asset returns the kind the content type names
\* whenever it names one, whatever the extension of the path; the extension
\* decides only when the content type names none, and the result is misc
\* when neither names a kind.
C15_ContentTypeFirst ==
    (call.fn = "_classify_asset" /\ call.outs # <<>>) =>
        call.outs[1] = IF KindOfContentType(call.args[1]) # ""
                       THEN KindOfContentType(call.args[1])
                       ELSE KindOfExtension(call.args[2])

====
